---- MODULE Spec2Model ----
(***************************************************************************)
(* Prophet outlier detection notebooks: the threshold-distance scorer that *)
(* od.predict applies to each test row, and the notebook's selection of    *)
(* the rows with a positive score.                                         *)
(*                                                                         *)
(* Values are integers (a fixed-point grid of the float columns); an entry  *)
(* of the score column is Num(v), or NaN when the row has no score.        *)
(***************************************************************************)
EXTENDS Integers, Naturals, Sequences, FiniteSets, TLC

\* Bounds of the model.
MaxVal == 4          \* yhat_lower, yhat, yhat_upper range over 0..MaxVal
Margin == 2          \* y ranges over -Margin .. MaxVal + Margin
MaxRows == 2         \* rows of df_T_test scored in one run
ExampleMargin == 6   \* y ranges this far around the interval of the worked example
BatchVal == 2        \* in a scored table, yhat_upper ranges over 1..BatchVal
BatchRows == 2       \* rows of a scored table
TickMinutes == 5     \* record timestamps are multiples of TickMinutes minutes
MaxTick == 6         \* ... from 0 to MaxTick * TickMinutes
MaxReading == 2      \* backend_processing_time of a record ranges over 0..MaxReading
MaxRecords == 2      \* records of df_1
MaxSeries == 6       \* rows of the resampled series df
MaxProphet == 3      \* n_prophet ranges over 1..MaxProphet
MaxPeriods == 3      \* n_periods ranges over 1..MaxPeriods
MaxFuture == 2       \* the future rows asked of make_future_dataframe range over 1..MaxFuture
MaxTail == 2         \* the fixed tail window of part_000 ranges over 1..MaxTail

\* Program constants.
BucketMinutes == 15  \* resample('15Min', ...)

VARIABLES
    pc,          \* next step of the notebook for the current test row
    ds,          \* index of the current test row (its timestamp)
    y,           \* observed value of the row
    y_isna,      \* whether the row has no observed value (y then reads 0)
    yhat,        \* point forecast of the row
    yhat_lower,  \* lower uncertainty boundary of the row
    yhat_upper,  \* upper uncertainty boundary of the row
    score,       \* od_preds['data']['forecast']['score'] of the row: Num(v) or NaN
    is_outlier,  \* od_preds['data']['is_outlier'] of the row
    df_outlier,  \* whether the row is in df_outlier
    \* the whole table of one od.predict call
    notebook,    \* which notebook runs
    bpc,         \* next step of the notebook on the table
    forecast,    \* od_preds['data']['forecast']: the rows, in timestamp order
    scores,      \* its score column
    flags,       \* od_preds['data']['is_outlier']
    done,        \* the rows the scorer has written
    shown,       \* the rows of df_outlier
    printed,     \* the count printed as 'Number of outliers'
    \* loading the data
    rpc,         \* next step of the loading cell
    df_1,        \* the records read: timestamp (in minutes) and backend_processing_time
    df_2,        \* the resampled series: timestamp and mean
    \* the cells from the train split to od.predict
    npc,         \* next cell
    n_rows,      \* number of rows of df
    n_prophet,   \* number of training rows asked for
    n_periods,   \* number of test rows asked for
    df_T,        \* row indices of the training frame
    df_T_test,   \* row indices of the test frame
    load_outlier_detector,
    od,          \* state of the detector object: "none", "constructed", "fitted", "fetched"
    fit_rows,    \* the rows od.fit was given
    saved,       \* state of the detector that save_detector wrote, "none" before
    predict_rows, \* the rows od.predict was given
    events,      \* the detector calls made so far, in order
    \* the cells after od.predict
    od_preds,    \* row indices of od_preds['data']['forecast']
    threshold,   \* its threshold column, <<>> while it has none
    failed,      \* the cell that raised, "" while none has
    periods,     \* future rows asked of make_future_dataframe
    history,     \* number of history dates of od.model
    full_forecast, \* row indices of the frame named forecast in the notebook
    forecast_y,  \* the rows of that frame that received an observed value
    window       \* the rows of that frame that are plotted

rowVars == <<pc, ds, y, y_isna, yhat, yhat_lower, yhat_upper, score, is_outlier, df_outlier>>

batchVars == <<notebook, bpc, forecast, scores, flags, done, shown, printed>>

resampleVars == <<rpc, df_1, df_2>>

cellVars == <<npc, n_rows, n_prophet, n_periods, df_T, df_T_test, load_outlier_detector,
              od, fit_rows, saved, predict_rows, events>>

overlayVars == <<od_preds, threshold, failed, periods, history, full_forecast,
                 forecast_y, window>>

vars == <<rowVars, batchVars, resampleVars, cellVars, overlayVars>>

otherThanRow == <<batchVars, resampleVars, cellVars, overlayVars>>

otherThanBatch == <<rowVars, resampleVars, cellVars, overlayVars>>

otherThanResample == <<rowVars, batchVars, cellVars, overlayVars>>

otherThanCells == <<rowVars, batchVars, resampleVars, overlayVars>>

otherThanNotebook == <<rowVars, batchVars, resampleVars>>

\* what the cells after od.predict leave as it is
cellOnlyVars == <<n_rows, n_prophet, n_periods, df_T, df_T_test, load_outlier_detector,
                  od, fit_rows, saved, predict_rows, events>>

----------------------------------------------------------------------------
\* The scorer, as the Method cell describes it.

Abs(x) == IF x < 0 THEN -x ELSE x

Min(a, b) == IF a <= b THEN a ELSE b

FarthestBoundaryDistance(obs, lower, upper) ==
    IF Abs(obs - lower) <= Abs(upper - obs) THEN Abs(upper - obs) ELSE Abs(obs - lower)

\* "the distance from the observed value to the nearest uncertainty boundary
\*  (upper or lower)"
NearestBoundaryDistance(obs, lower, upper) ==
    Min(Abs(obs - lower), Abs(upper - obs))

WithinBoundariesStrict(obs, lower, upper) == lower < obs /\ obs < upper

\* "the observation is within the boundaries"
WithinBoundaries(obs, lower, upper) == lower <= obs /\ obs <= upper

OutlierScoreFlag(obs, lower, upper) ==
    IF WithinBoundaries(obs, lower, upper) THEN -1 ELSE 1

OutlierScoreUpperOnly(obs, lower, upper) == obs - upper

OutlierScoreUnsigned(obs, lower, upper) ==
    NearestBoundaryDistance(obs, lower, upper)

\* "If the observation is within the boundaries, the outlier score equals the
\*  negative distance. ... If the observation is outside of the boundaries, the
\*  score equals the distance measure"
OutlierScore(obs, lower, upper) ==
    IF WithinBoundaries(obs, lower, upper)
    THEN 0 - NearestBoundaryDistance(obs, lower, upper)
    ELSE NearestBoundaryDistance(obs, lower, upper)

IsOutlierAboveOnly(obs, lower, upper) == obs > upper

IsOutlierAtBoundary(obs, lower, upper) == obs <= lower \/ obs >= upper

\* "... and the observation is flagged as an outlier"
IsOutlier(obs, lower, upper) == ~WithinBoundaries(obs, lower, upper)

----------------------------------------------------------------------------
\* Entries of a float column.

NaN == <<>>

Num(v) == <<v>>

\* s > 0 as pandas compares a column entry: False for NaN
Positive(s) == s # NaN /\ s[1] > 0

----------------------------------------------------------------------------
\* The rows the forecaster hands to the scorer.

Thresholds == 0..MaxVal

Observations == (0 - Margin)..(MaxVal + Margin)

\* yhat_lower <= yhat <= yhat_upper, and an observed value on the grid or none
\* (the mean of a resampling bucket that received no record)
ForecastPoints ==
    { p \in [y: Observations, y_isna: BOOLEAN, yhat: Thresholds,
             yhat_lower: Thresholds, yhat_upper: Thresholds] :
        /\ p.yhat_lower <= p.yhat /\ p.yhat <= p.yhat_upper
        /\ p.y_isna => p.y = 0 }

\* the interval of the worked examples, lower_bound = 10 and upper_bound = 20
ExamplePoints ==
    [y: (10 - ExampleMargin)..(20 + ExampleMargin), y_isna: {FALSE}, yhat: 10..20,
     yhat_lower: {10}, yhat_upper: {20}]

\* the rows of a scored table: a coarser grid
BatchPoints ==
    { p \in [y: 0..(BatchVal + 1), y_isna: BOOLEAN, yhat: 1..BatchVal,
             yhat_lower: {1}, yhat_upper: 1..BatchVal] :
        /\ p.y_isna => p.y = 0
        /\ p.yhat <= p.yhat_upper }

\* one_month_analyse_anomaly_newdata.ipynb, and the notebooks of part_000
Notebooks == {"one_month", "unnamed"}

----------------------------------------------------------------------------
\* no table yet
BatchIdle ==
    /\ bpc = "predict"
    /\ forecast = <<>>
    /\ scores = <<>>
    /\ flags = <<>>
    /\ done = {}
    /\ shown = {}
    /\ printed = 0

\* nothing read yet
ResampleIdle ==
    /\ rpc = "read"
    /\ df_1 = <<>>
    /\ df_2 = <<>>

\* no cell of the second half run yet
CellsIdle ==
    /\ npc = "load"
    /\ n_rows = 0
    /\ n_prophet = 0
    /\ n_periods = 0
    /\ df_T = {}
    /\ df_T_test = {}
    /\ load_outlier_detector = FALSE
    /\ od = "none"
    /\ fit_rows = {}
    /\ saved = "none"
    /\ predict_rows = {}
    /\ events = <<>>
    /\ od_preds = {}
    /\ threshold = <<>>
    /\ failed = ""
    /\ periods = 0
    /\ history = 0
    /\ full_forecast = {}
    /\ forecast_y = {}
    /\ window = {}

Init ==
    /\ pc = "predict"
    /\ ds = 0
    /\ y = 0
    /\ y_isna = FALSE
    /\ yhat = 0
    /\ yhat_lower = 0
    /\ yhat_upper = 0
    /\ score = NaN
    /\ is_outlier = FALSE
    /\ df_outlier = FALSE
    /\ BatchIdle
    /\ notebook = "one_month"
    /\ ResampleIdle
    /\ CellsIdle

\* od.model.predict: the forecast of the next test row, joined with its y
Forecast(points) ==
    /\ pc = "predict"
    /\ ds < MaxRows
    /\ \E p \in points :
        /\ y' = p.y
        /\ y_isna' = p.y_isna
        /\ yhat' = p.yhat
        /\ yhat_lower' = p.yhat_lower
        /\ yhat_upper' = p.yhat_upper
    /\ pc' = "score"
    /\ UNCHANGED <<ds, score, is_outlier, df_outlier>>
    /\ UNCHANGED otherThanRow

\* a scorer that divides the distance by the width of the interval
ScoreRelativeToWidth ==
    /\ pc = "score"
    /\ score' = IF y_isna \/ yhat_upper = yhat_lower
                THEN NaN
                ELSE Num(OutlierScore(y, yhat_lower, yhat_upper) \div
                           (yhat_upper - yhat_lower))
    /\ is_outlier' = (~y_isna /\ IsOutlier(y, yhat_lower, yhat_upper))
    /\ pc' = "select"
    /\ UNCHANGED <<ds, y, y_isna, yhat, yhat_lower, yhat_upper, df_outlier>>
    /\ UNCHANGED otherThanRow

\* a scorer that fills a missing observed value with 0 before scoring
ScoreFillNa ==
    /\ pc = "score"
    /\ score' = Num(OutlierScore(y, yhat_lower, yhat_upper))
    /\ is_outlier' = IsOutlier(y, yhat_lower, yhat_upper)
    /\ pc' = "select"
    /\ UNCHANGED <<ds, y, y_isna, yhat, yhat_lower, yhat_upper, df_outlier>>
    /\ UNCHANGED otherThanRow

\* od.predict(..., return_instance_score=True): the score and the flag of the row.
\* A missing observed value propagates through the distance, so the row gets
\* no score, and no comparison with it holds, so the row is not flagged.
Score ==
    /\ pc = "score"
    /\ score' = IF y_isna THEN NaN ELSE Num(OutlierScore(y, yhat_lower, yhat_upper))
    /\ is_outlier' = (~y_isna /\ IsOutlier(y, yhat_lower, yhat_upper))
    /\ pc' = "select"
    /\ UNCHANGED <<ds, y, y_isna, yhat, yhat_lower, yhat_upper, df_outlier>>
    /\ UNCHANGED otherThanRow

\* df_outlier = df_fcst.loc[df_fcst['score'] > 0]
Select ==
    /\ pc = "select"
    /\ df_outlier' = Positive(score)
    /\ pc' = "predict"
    /\ ds' = ds + 1
    /\ UNCHANGED <<y, y_isna, yhat, yhat_lower, yhat_upper, score, is_outlier>>
    /\ UNCHANGED otherThanRow

PredictTest == Forecast(ForecastPoints)

PredictExample == Forecast(ExamplePoints)

Next == PredictTest \/ Score \/ Select

Spec == Init /\ [][Next]_vars

NextExample == PredictExample \/ Score \/ Select

SpecExample == Init /\ [][NextExample]_vars

----------------------------------------------------------------------------
\* The table of one od.predict call, scored row by row in any order.

\* the row state before any row is forecast
RowIdle ==
    /\ pc = "predict"
    /\ ds = 0
    /\ y = 0
    /\ y_isna = FALSE
    /\ yhat = 0
    /\ yhat_lower = 0
    /\ yhat_upper = 0
    /\ score = NaN
    /\ is_outlier = FALSE
    /\ df_outlier = FALSE

InitBatch ==
    /\ RowIdle
    /\ BatchIdle
    /\ notebook \in Notebooks
    /\ ResampleIdle
    /\ CellsIdle

\* the score column entry of a row
RowScore(p) ==
    IF p.y_isna THEN NaN ELSE Num(OutlierScore(p.y, p.yhat_lower, p.yhat_upper))

\* the is_outlier entry of a row
RowFlag(p) == ~p.y_isna /\ IsOutlier(p.y, p.yhat_lower, p.yhat_upper)

\* od.model.predict(df_T_test): one forecast row per test row, joined with y
BatchForecast ==
    /\ bpc = "predict"
    /\ \E n \in 0..BatchRows :
        \E t \in [1..n -> BatchPoints] :
            /\ forecast' = t
            /\ scores' = [i \in 1..n |-> NaN]
            /\ flags' = [i \in 1..n |-> FALSE]
    /\ done' = {}
    /\ bpc' = "score"
    /\ UNCHANGED <<notebook, shown, printed>>
    /\ UNCHANGED otherThanBatch

\* a scorer that clips the observed value of the row into its interval
ScoreRowClipping(i) ==
    /\ bpc = "score"
    /\ i \in 1..Len(forecast)
    /\ LET p == forecast[i]
       IN  /\ scores' = [scores EXCEPT ![i] = RowScore(p)]
           /\ flags' = [flags EXCEPT ![i] = RowFlag(p)]
           /\ forecast' = [forecast EXCEPT ![i].y =
                  IF p.y_isna THEN p.y
                  ELSE IF p.y > p.yhat_upper THEN p.yhat_upper
                  ELSE IF p.y < p.yhat_lower THEN p.yhat_lower
                  ELSE p.y]
    /\ done' = done \cup {i}
    /\ UNCHANGED <<notebook, bpc, shown, printed>>
    /\ UNCHANGED otherThanBatch

\* a scorer that accumulates: it adds the score already written for the row before
ScoreRowCumulative(i) ==
    /\ bpc = "score"
    /\ i \in 1..Len(forecast)
    /\ LET p == forecast[i]
           carry == IF i > 1 /\ (i - 1) \in done /\ scores[i - 1] # NaN
                    THEN scores[i - 1][1]
                    ELSE 0
       IN  /\ scores' = [scores EXCEPT ![i] =
                  IF p.y_isna
                  THEN NaN
                  ELSE Num(OutlierScore(p.y, p.yhat_lower, p.yhat_upper) + carry)]
           /\ flags' = [flags EXCEPT ![i] = RowFlag(p)]
    /\ done' = done \cup {i}
    /\ UNCHANGED <<notebook, bpc, forecast, shown, printed>>
    /\ UNCHANGED otherThanBatch

\* a scorer that measures the distance from the prediction of the row
ScoreRowAgainstPrediction(i) ==
    /\ bpc = "score"
    /\ i \in 1..Len(forecast)
    /\ LET p == forecast[i]
       IN  /\ scores' = [scores EXCEPT ![i] =
                  IF p.y_isna THEN NaN ELSE Num(Abs(p.y - p.yhat))]
           /\ flags' = [flags EXCEPT ![i] = ~p.y_isna /\ p.y # p.yhat]
    /\ done' = done \cup {i}
    /\ UNCHANGED <<notebook, bpc, forecast, shown, printed>>
    /\ UNCHANGED otherThanBatch

\* od.predict writes the score and the flag of row i; rows are independent, so
\* they may be written in any order, and again
ScoreRow(i) ==
    /\ bpc = "score"
    /\ i \in 1..Len(forecast)
    /\ scores' = [scores EXCEPT ![i] = RowScore(forecast[i])]
    /\ flags' = [flags EXCEPT ![i] = RowFlag(forecast[i])]
    /\ done' = done \cup {i}
    /\ UNCHANGED <<notebook, bpc, forecast, shown, printed>>
    /\ UNCHANGED otherThanBatch

\* df_outlier = df_fcst.loc[df_fcst['score'] > 0] in one_month_analyse_anomaly_newdata,
\* df_outlier = df_fcst in the notebooks of part_000
SelectOutliers ==
    /\ bpc = "score"
    /\ done = 1..Len(forecast)
    /\ shown' = IF notebook = "one_month"
                THEN {i \in 1..Len(forecast) : Positive(scores[i])}
                ELSE 1..Len(forecast)
    /\ bpc' = "print"
    /\ UNCHANGED <<notebook, forecast, scores, flags, done, printed>>
    /\ UNCHANGED otherThanBatch

\* print('Number of outliers: {}'.format(df_outlier.shape[0]))
PrintCount ==
    /\ bpc = "print"
    /\ printed' = Cardinality(shown)
    /\ bpc' = "done"
    /\ UNCHANGED <<notebook, forecast, scores, flags, done, shown>>
    /\ UNCHANGED otherThanBatch

ScoreAnyRow == \E i \in 1..BatchRows : ScoreRow(i)

NextBatch == BatchForecast \/ ScoreAnyRow \/ SelectOutliers \/ PrintCount

SpecBatch == InitBatch /\ [][NextBatch]_vars


----------------------------------------------------------------------------
\* Loading: df_2 = df_1.resample('15Min', on='timestamp').mean()

Records ==
    [timestamp: {k * TickMinutes : k \in 0..MaxTick},
     backend_processing_time: 0..MaxReading]

InitResample ==
    /\ RowIdle
    /\ BatchIdle
    /\ notebook = "one_month"
    /\ ResampleIdle
    /\ CellsIdle

\* a bucket closed on the right and labelled by its right edge
BucketRight(t) == ((t + BucketMinutes - 1) \div BucketMinutes) * BucketMinutes

\* the label of the 15-minute bucket of timestamp t: its left edge
Bucket(t) == (t \div BucketMinutes) * BucketMinutes

\* the least and the greatest bucket label of the records
FirstBucket(recs) ==
    CHOOSE b \in {Bucket(recs[i].timestamp) : i \in DOMAIN recs} :
        \A i \in DOMAIN recs : b <= Bucket(recs[i].timestamp)

LastBucket(recs) ==
    CHOOSE b \in {Bucket(recs[i].timestamp) : i \in DOMAIN recs} :
        \A i \in DOMAIN recs : b >= Bucket(recs[i].timestamp)

\* the labels of the occupied buckets only, in the order the records come
RECURSIVE OccupiedLabels(_)
OccupiedLabels(recs) ==
    IF recs = <<>>
    THEN <<>>
    ELSE LET rest == OccupiedLabels(SubSeq(recs, 1, Len(recs) - 1))
             b == Bucket(recs[Len(recs)].timestamp)
         IN  IF \E k \in DOMAIN rest : rest[k] = b THEN rest ELSE Append(rest, b)

\* the labels of the output rows: every bucket from the first to the last
\* occupied one, in time order, occupied or not
BucketLabels(recs) ==
    IF recs = <<>>
    THEN <<>>
    ELSE [k \in 1..((LastBucket(recs) - FirstBucket(recs)) \div BucketMinutes + 1) |->
             FirstBucket(recs) + (k - 1) * BucketMinutes]

\* sum and number of the backend_processing_time of the first n records that
\* fall in bucket b
RECURSIVE BucketSum(_, _, _)
BucketSum(recs, b, n) ==
    IF n = 0
    THEN 0
    ELSE BucketSum(recs, b, n - 1) +
         (IF Bucket(recs[n].timestamp) = b THEN recs[n].backend_processing_time ELSE 0)

RECURSIVE BucketCount(_, _, _)
BucketCount(recs, b, n) ==
    IF n = 0
    THEN 0
    ELSE BucketCount(recs, b, n - 1) +
         (IF Bucket(recs[n].timestamp) = b THEN 1 ELSE 0)

\* the quotient total / count kept exact as the pair, NaN for no record
Mean(total, count) == IF count = 0 THEN NaN ELSE <<total, count>>

ResampleMean(recs) ==
    LET labels == BucketLabels(recs)
    IN  [k \in DOMAIN labels |->
            [timestamp |-> labels[k],
             backend_processing_time |->
                 Mean(BucketSum(recs, labels[k], Len(recs)),
                      BucketCount(recs, labels[k], Len(recs)))]]

\* pd.read_csv / the parsed log: any records, in any order
ReadRecords ==
    /\ rpc = "read"
    /\ \E n \in 0..MaxRecords :
        \E recs \in [1..n -> Records] : df_1' = recs
    /\ rpc' = "resample"
    /\ UNCHANGED df_2
    /\ UNCHANGED otherThanResample

\* df_2 = df_1.resample('15Min', on='timestamp').mean()
Resample ==
    /\ rpc = "resample"
    /\ df_2' = ResampleMean(df_1)
    /\ rpc' = "done"
    /\ UNCHANGED df_1
    /\ UNCHANGED otherThanResample

NextResample == ReadRecords \/ Resample

SpecResample == InitResample /\ [][NextResample]_vars

----------------------------------------------------------------------------
\* The cells from the train split to od.predict, run top to bottom.

InitCells ==
    /\ RowIdle
    /\ BatchIdle
    /\ notebook \in Notebooks
    /\ ResampleIdle
    /\ CellsIdle

\* rows are numbered from 0 in time order; row i of the resampled series is
\* i buckets after the first
Timestamp(i) == i * BucketMinutes

\* series[a:b] on n rows: the positions from a up to, not including, b that exist
Slice(n, a, b) ==
    LET start == IF a <= n THEN a ELSE n
        stop == IF b <= n THEN b ELSE n
    IN  start..(stop - 1)

\* df[...][:n_prophet]
TrainRows(n, np) == Slice(n, 0, np)

\* a test slice that starts one row early
TestRowsFromLastTrainRow(n, np, nper) == Slice(n, np - 1, np + nper)

\* df[...][n_prophet:n_prophet+n_periods]
TestRows(n, np, nper) == Slice(n, np, np + nper)

\* df = pd.read_csv('train.csv', index_col=None)
LoadSeries ==
    /\ npc = "load"
    /\ n_rows' \in 1..MaxSeries
    /\ npc' = "n_prophet"
    /\ UNCHANGED <<n_prophet, n_periods, df_T, df_T_test, load_outlier_detector,
                   od, fit_rows, saved, predict_rows, events>>
    /\ UNCHANGED otherThanCells

\* n_prophet = 1920
SetNProphet ==
    /\ npc = "n_prophet"
    /\ n_prophet' \in 1..MaxProphet
    /\ npc' = "train"
    /\ UNCHANGED <<n_rows, n_periods, df_T, df_T_test, load_outlier_detector,
                   od, fit_rows, saved, predict_rows, events>>
    /\ UNCHANGED otherThanCells

\* df_T = pd.DataFrame(data={'ds': df['timestamp'][:n_prophet], 'y': ...})
SplitTrain ==
    /\ npc = "train"
    /\ df_T' = TrainRows(n_rows, n_prophet)
    /\ npc' = "flag"
    /\ UNCHANGED <<n_rows, n_prophet, n_periods, df_T_test, load_outlier_detector,
                   od, fit_rows, saved, predict_rows, events>>
    /\ UNCHANGED otherThanCells

\* load_outlier_detector = False, or True when the user edits the cell
SetLoadFlag ==
    /\ npc = "flag"
    /\ load_outlier_detector' \in BOOLEAN
    /\ npc' = "detector"
    /\ UNCHANGED <<n_rows, n_prophet, n_periods, df_T, df_T_test,
                   od, fit_rows, saved, predict_rows, events>>
    /\ UNCHANGED otherThanCells

\* od = fetch_detector(filepath, detector_type, dataset, detector_name)
FetchDetector ==
    /\ npc = "detector"
    /\ load_outlier_detector
    /\ od' = "fetched"
    /\ events' = Append(events, "fetch")
    /\ npc' = "test"
    /\ UNCHANGED <<n_rows, n_prophet, n_periods, df_T, df_T_test, load_outlier_detector,
                   fit_rows, saved, predict_rows>>
    /\ UNCHANGED otherThanCells

\* od = OutlierProphet(...)
ConstructDetector ==
    /\ npc = "detector"
    /\ ~load_outlier_detector
    /\ od' = "constructed"
    /\ events' = Append(events, "construct")
    /\ npc' = "fit"
    /\ UNCHANGED <<n_rows, n_prophet, n_periods, df_T, df_T_test, load_outlier_detector,
                   fit_rows, saved, predict_rows>>
    /\ UNCHANGED otherThanCells

\* a detector cell that saves the detector it has just constructed, then fits it
SaveUnfittedDetector ==
    /\ npc = "fit"
    /\ od' = "fitted"
    /\ fit_rows' = df_T
    /\ saved' = od
    /\ events' = events \o <<"save", "fit">>
    /\ npc' = "test"
    /\ UNCHANGED <<n_rows, n_prophet, n_periods, df_T, df_T_test, load_outlier_detector,
                   predict_rows>>
    /\ UNCHANGED otherThanCells

\* od.fit(df_T)
FitDetector ==
    /\ npc = "fit"
    /\ od' = "fitted"
    /\ fit_rows' = df_T
    /\ events' = Append(events, "fit")
    /\ npc' = "save"
    /\ UNCHANGED <<n_rows, n_prophet, n_periods, df_T, df_T_test, load_outlier_detector,
                   saved, predict_rows>>
    /\ UNCHANGED otherThanCells

\* save_detector(od, filepath)
SaveDetector ==
    /\ npc = "save"
    /\ saved' = od
    /\ events' = Append(events, "save")
    /\ npc' = "test"
    /\ UNCHANGED <<n_rows, n_prophet, n_periods, df_T, df_T_test, load_outlier_detector,
                   od, fit_rows, predict_rows>>
    /\ UNCHANGED otherThanCells

\* n_periods = 1000; df_T_test = pd.DataFrame(data={'ds':
\*   df['timestamp'][n_prophet:n_prophet+n_periods], 'y': ...})
SplitTest ==
    /\ npc = "test"
    /\ \E nper \in 1..MaxPeriods :
        /\ n_periods' = nper
        /\ df_T_test' = TestRows(n_rows, n_prophet, nper)
    /\ npc' = "predict"
    /\ UNCHANGED <<n_rows, n_prophet, df_T, load_outlier_detector,
                   od, fit_rows, saved, predict_rows, events>>
    /\ UNCHANGED otherThanCells

\* od_preds = od.predict(df_T_test, ...): one scored forecast row per row of
\* df_T_test; Prophet refuses a frame without rows
PredictOutliers ==
    /\ npc = "predict"
    /\ predict_rows' = df_T_test
    /\ events' = Append(events, "predict")
    /\ IF df_T_test = {}
       THEN /\ npc' = "error"
            /\ failed' = "predict"
            /\ od_preds' = od_preds
       ELSE /\ npc' = "future"
            /\ failed' = failed
            /\ od_preds' = df_T_test
    /\ UNCHANGED <<n_rows, n_prophet, n_periods, df_T, df_T_test, load_outlier_detector,
                   od, fit_rows, saved>>
    /\ UNCHANGED <<threshold, periods, history, full_forecast, forecast_y, window>>
    /\ UNCHANGED otherThanNotebook

\* series[-k:] on n rows: the last k positions, all of them when k exceeds n
LastRows(n, k) == (IF k <= n THEN n - k ELSE 0)..(n - 1)

\* np.zeros(n)
Zeros(n) == [k \in 1..n |-> 0]

\* future = od.model.make_future_dataframe(periods=500, freq='15T',
\* include_history=True); forecast = od.model.predict(future): the history dates
\* of the model followed by the future rows. A fitted model holds the dates it
\* was fitted on, a fetched one those of its own training.
MakeFutureForecast ==
    /\ npc = "future"
    /\ \E per \in 1..MaxFuture :
       \E h \in IF od = "fitted" THEN {Cardinality(fit_rows)} ELSE 1..MaxProphet :
           /\ periods' = per
           /\ history' = h
           /\ full_forecast' = 0..(h + per - 1)
    /\ npc' = "observed"
    /\ UNCHANGED cellOnlyVars
    /\ UNCHANGED <<od_preds, threshold, failed, forecast_y, window>>
    /\ UNCHANGED otherThanNotebook

\* forecast['y'] = df['backend_processing_time'][:n_prophet+n_periods]: the
\* values are placed by row label; a forecast row without a labelled value gets NaN
AttachObserved ==
    /\ npc = "observed"
    /\ forecast_y' = full_forecast \cap Slice(n_rows, 0, n_prophet + n_periods)
    /\ npc' = "plot"
    /\ UNCHANGED cellOnlyVars
    /\ UNCHANGED <<od_preds, threshold, failed, periods, history, full_forecast, window>>
    /\ UNCHANGED otherThanNotebook

\* forecast[-n_periods:].plot(...), and forecast[-2976:].plot(...) in part_000
PlotTail ==
    /\ npc = "plot"
    /\ \E k \in IF notebook = "one_month" THEN {n_periods} ELSE 1..MaxTail :
           window' = LastRows(Cardinality(full_forecast), k)
    /\ npc' = "threshold"
    /\ UNCHANGED cellOnlyVars
    /\ UNCHANGED <<od_preds, threshold, failed, periods, history, full_forecast, forecast_y>>
    /\ UNCHANGED otherThanNotebook

\* a threshold cell that assigns the scalar 0, which fits a frame of any length
AttachThresholdBroadcast ==
    /\ npc = "threshold"
    /\ threshold' = Zeros(Cardinality(od_preds))
    /\ failed' = failed
    /\ npc' = "done"
    /\ UNCHANGED cellOnlyVars
    /\ UNCHANGED <<od_preds, periods, history, full_forecast, forecast_y, window>>
    /\ UNCHANGED otherThanNotebook

\* od_preds['data']['forecast']['threshold'] = np.zeros(n_periods): the column
\* is set when the array has one value per row, and the assignment raises otherwise
AttachThreshold ==
    /\ npc = "threshold"
    /\ IF Len(Zeros(n_periods)) = Cardinality(od_preds)
       THEN /\ threshold' = Zeros(n_periods)
            /\ failed' = failed
            /\ npc' = "done"
       ELSE /\ threshold' = threshold
            /\ failed' = "threshold"
            /\ npc' = "error"
    /\ UNCHANGED cellOnlyVars
    /\ UNCHANGED <<od_preds, periods, history, full_forecast, forecast_y, window>>
    /\ UNCHANGED otherThanNotebook

NextCells ==
    \/ LoadSeries
    \/ SetNProphet
    \/ SplitTrain
    \/ SetLoadFlag
    \/ FetchDetector
    \/ ConstructDetector
    \/ FitDetector
    \/ SaveDetector
    \/ SplitTest
    \/ PredictOutliers
    \/ MakeFutureForecast
    \/ AttachObserved
    \/ PlotTail
    \/ AttachThreshold

SpecCells == InitCells /\ [][NextCells]_vars

\* the row has an observed value and has been scored (its score and flag are
\* those of the current row)
Scored == pc = "select" /\ ~y_isna

\* the row has been through the selection as well
Selected == pc = "predict" /\ ds > 0

\* the observed value lies outside the interval
Outside == y < yhat_lower \/ y > yhat_upper

----------------------------------------------------------------------------
\* C1: with lower_bound <= upper_bound, the score of a scored point is
\* -min(|observed - lower_bound|, |upper_bound - observed|) when
\* lower_bound <= observed <= upper_bound, and +min(...) otherwise.
C1_SignedNearestDistance ==
    Scored /\ yhat_lower <= yhat_upper =>
        LET d == Min(Abs(y - yhat_lower), Abs(yhat_upper - y))
        IN  IF yhat_lower <= y /\ y <= yhat_upper
            THEN score = Num(0 - d)
            ELSE score = Num(d)

\* a point strictly inside, nearer to the lower boundary than to the upper one
C1_Witness ==
    /\ Scored
    /\ yhat_lower < y
    /\ y - yhat_lower < yhat_upper - y
    /\ score = Num(yhat_lower - y)

\* C2: a point with observed < lower_bound or observed > upper_bound has
\* score > 0 and is flagged as an outlier.
C2_OutsideIsPositiveAndFlagged ==
    Scored /\ Outside => score # NaN /\ score[1] > 0 /\ is_outlier = TRUE

\* a scored point above its upper boundary
C2_Witness == Scored /\ y > yhat_upper /\ score = Num(y - yhat_upper) /\ is_outlier

\* C3: a point with lower_bound <= observed <= upper_bound has score <= 0.
C3_InsideIsNonPositive ==
    Scored /\ yhat_lower <= y /\ y <= yhat_upper => score # NaN /\ score[1] <= 0

\* a scored point strictly inside its interval, with a negative score
C3_Witness ==
    Scored /\ yhat_lower < y /\ y < yhat_upper /\ score # NaN /\ score[1] < 0

\* C4: for a scored point with lower_bound <= upper_bound, is_outlier, being
\* outside the interval and score > 0 coincide, and the rows the notebook
\* selects with score > 0 are exactly the flagged rows.
C4_FlagOutsidePositiveCoincide ==
    /\ Scored /\ yhat_lower <= yhat_upper =>
        /\ is_outlier <=> Outside
        /\ is_outlier <=> (score # NaN /\ score[1] > 0)
    /\ Selected /\ yhat_lower <= yhat_upper => (df_outlier <=> is_outlier)

\* a flagged row that went into df_outlier
C4_Witness == Selected /\ Outside /\ is_outlier /\ df_outlier

\* C5: when observed equals lower_bound or upper_bound (lower_bound <=
\* upper_bound), the score is 0 and the point is not flagged.
C5_BoundaryCountsAsInside ==
    Scored /\ yhat_lower <= yhat_upper /\ (y = yhat_lower \/ y = yhat_upper) =>
        score = Num(0) /\ is_outlier = FALSE

\* a scored point on the upper boundary of a proper interval
C5_Witness ==
    /\ Scored
    /\ yhat_lower < yhat_upper
    /\ y = yhat_upper
    /\ score = Num(0)
    /\ ~is_outlier

\* C6: with lower_bound <= predicted <= upper_bound, the score at observed =
\* predicted is at most the score at any observed value inside the bounds.
C6_MinimizedAtPrediction ==
    Scored /\ yhat_lower <= yhat /\ yhat <= yhat_upper /\ y = yhat =>
        \A o \in Observations :
            yhat_lower <= o /\ o <= yhat_upper =>
                score[1] <= OutlierScore(o, yhat_lower, yhat_upper)

\* C7: inside the interval the score grows with the distance from the
\* prediction: |o1 - predicted| <= |o2 - predicted| implies score(o1) <= score(o2).
C7_InsideIncreasesWithDistanceFromPrediction ==
    Scored /\ yhat_lower <= y /\ y <= yhat_upper =>
        \A o2 \in Observations :
            /\ yhat_lower <= o2 /\ o2 <= yhat_upper
            /\ Abs(y - yhat) <= Abs(o2 - yhat)
            => score[1] <= OutlierScore(o2, yhat_lower, yhat_upper)

\* C8: outside the interval the score strictly increases with the distance
\* from it: for o1 < o2 both above upper_bound, score(o1) < score(o2); for
\* o1 < o2 both below lower_bound, score(o1) > score(o2).
C8_OutsideStrictlyMonotone ==
    Scored =>
        \A o \in Observations :
            /\ (yhat_upper < y /\ y < o) =>
                  score[1] < OutlierScore(o, yhat_lower, yhat_upper)
            /\ (o < y /\ y < yhat_lower) =>
                  OutlierScore(o, yhat_lower, yhat_upper) > score[1]

\* a scored point below its lower boundary with a further observation below it
C8_Witness ==
    /\ Scored
    /\ y < yhat_lower
    /\ \E o \in Observations :
          o < y /\ OutlierScore(o, yhat_lower, yhat_upper) > score[1]

\* C9: with lower_bound = 10 and upper_bound = 20, observed = 15 gives score -5
\* and no flag, observed = 25 gives score 5 and a flag, observed = 5 gives
\* score 5 and a flag.
C9_WorkedExamples ==
    Scored /\ yhat_lower = 10 /\ yhat_upper = 20 =>
        /\ y = 15 => score = Num(-5) /\ is_outlier = FALSE
        /\ y = 25 => score = Num(5) /\ is_outlier = TRUE
        /\ y = 5 => score = Num(5) /\ is_outlier = TRUE

\* the third example has been scored
C9_Witness ==
    /\ Scored
    /\ yhat_lower = 10
    /\ yhat_upper = 20
    /\ y = 5
    /\ score = Num(5)
    /\ is_outlier

\* C10: for every observed, lower_bound and upper_bound with lower_bound <=
\* upper_bound the scorer returns a number and a boolean, never an error value.
C10_ScorerIsTotal ==
    Scored /\ yhat_lower <= yhat_upper =>
        /\ score # NaN
        /\ score[1] \in Int
        /\ is_outlier \in BOOLEAN

\* a scored point of a degenerate interval, observed on it
C10_Witness ==
    /\ Scored
    /\ yhat_lower = yhat_upper
    /\ y = yhat_lower
    /\ score = Num(0)
    /\ ~is_outlier

C19_ClosedForm ==
    Scored /\ yhat_lower <= yhat_upper =>
        LET a == yhat_lower - y
            b == y - yhat_upper
        IN  score = Num(IF a >= b THEN a ELSE b)

\* a scored point strictly inside and one unit from the upper boundary only
C19_Witness ==
    /\ Scored
    /\ yhat_lower < y - 1
    /\ y = yhat_upper - 1
    /\ score = Num(-1)

C18_PrintedCountIsFlaggedCount ==
    bpc = "done" =>
        /\ printed = Cardinality({i \in 1..Len(forecast) : Positive(scores[i])})
        /\ \A i \in shown : Positive(scores[i])

\* the records of df_1 whose timestamp lies in [t, t + 15 minutes)
InBucket(t) ==
    {i \in DOMAIN df_1 :
        t <= df_1[i].timestamp /\ df_1[i].timestamp < t + BucketMinutes}

RECURSIVE TotalOf(_)
TotalOf(S) ==
    IF S = {}
    THEN 0
    ELSE LET i == CHOOSE j \in S : TRUE
         IN  df_1[i].backend_processing_time + TotalOf(S \ {i})

\* C15: every record falls in the bucket [t, t + 15 min) of exactly one output
\* row, and the value of the output row at t is the arithmetic mean of exactly
\* the records in [t, t + 15 min).
C15_ResampleIsBucketMean ==
    rpc = "done" =>
        /\ \A i \in DOMAIN df_1 :
              Cardinality({k \in DOMAIN df_2 : i \in InBucket(df_2[k].timestamp)}) = 1
        /\ \A k \in DOMAIN df_2 :
              LET members == InBucket(df_2[k].timestamp)
              IN  df_2[k].backend_processing_time =
                      IF members = {}
                      THEN NaN
                      ELSE <<TotalOf(members), Cardinality(members)>>

\* two records with different values share a bucket, neither on its left edge
C15_Witness ==
    /\ rpc = "done"
    /\ Len(df_1) = 2
    /\ Len(df_2) = 1
    /\ df_1[1].timestamp > df_2[1].timestamp
    /\ df_1[2].timestamp > df_1[1].timestamp
    /\ df_2[1].backend_processing_time = <<3, 2>>

\* C16: whatever the records (unsorted, sharing a timestamp), the timestamps of
\* the resampled series are strictly increasing, without duplicate, and
\* consecutive rows are exactly 15 minutes apart.
C16_ResampledTimestampsRegular ==
    rpc = "done" =>
        /\ \A k \in DOMAIN df_2 : \A l \in DOMAIN df_2 :
              k < l => df_2[k].timestamp < df_2[l].timestamp
        /\ \A k \in DOMAIN df_2 :
              (k + 1) \in DOMAIN df_2 =>
                  df_2[k + 1].timestamp = df_2[k].timestamp + BucketMinutes

\* records out of time order and two buckets apart: the output has a row for
\* the empty bucket between them
C16_Witness ==
    /\ rpc = "done"
    /\ Len(df_1) = 2
    /\ df_1[1].timestamp > df_1[2].timestamp
    /\ Len(df_2) = 3
    /\ df_2[2].backend_processing_time = NaN

\* the rows of df whose position is at least lo and below hi
RowsBetween(lo, hi) == {i \in 0..(n_rows - 1) : lo <= i /\ i < hi}

\* C14: once both frames are cut, the training rows are the rows of the
\* time-ordered series at positions [0, n_prophet) and the test rows those at
\* [n_prophet, n_prophet + n_periods); no row is in both, every test timestamp
\* is strictly later than every training timestamp, and the first test row
\* comes immediately after the last training row.
C14_TestPeriodFollowsTraining ==
    npc \in {"predict", "done"} =>
        /\ df_T = RowsBetween(0, n_prophet)
        /\ df_T_test = RowsBetween(n_prophet, n_prophet + n_periods)
        /\ df_T \cap df_T_test = {}
        /\ \A i \in df_T : \A j \in df_T_test : Timestamp(i) < Timestamp(j)
        /\ df_T_test # {} =>
              \E i \in df_T : \E j \in df_T_test :
                  /\ \A k \in df_T : k <= i
                  /\ \A k \in df_T_test : j <= k
                  /\ j = i + 1

\* a series long enough for a full training frame and a full test frame of
\* more than one row each
C14_Witness ==
    /\ npc = "done"
    /\ n_prophet > 1
    /\ n_periods > 1
    /\ Cardinality(df_T) = n_prophet
    /\ Cardinality(df_T_test) = n_periods

\* C17: in a top-to-bottom run predict is only called on a detector that was
\* fitted or fetched. With load_outlier_detector false the calls are construct,
\* fit on the training frame, save, predict; with it true they are fetch,
\* predict. The detector is never saved before it is fitted, and no test row
\* is among the rows it is fitted on.
C17_DetectorIsTrainedBeforePredicting ==
    /\ (events # <<>> /\ events[Len(events)] = "predict") =>
          events = IF load_outlier_detector
                   THEN <<"fetch", "predict">>
                   ELSE <<"construct", "fit", "save", "predict">>
    /\ \A k \in DOMAIN events :
          /\ events[k] = "predict" =>
                \E j \in 1..(k - 1) : events[j] \in {"fit", "fetch"}
          /\ events[k] = "save" =>
                \E j \in 1..(k - 1) : events[j] = "fit"
    /\ saved \in {"none", "fitted"}
    /\ od = "fitted" => fit_rows = df_T
    /\ od # "fitted" => fit_rows = {}
    /\ fit_rows \cap df_T_test = {}
    /\ fit_rows \cap predict_rows = {}

\* the fit branch ran to the end: the detector was fitted on a training frame,
\* saved, and asked to predict a test frame that has rows
C17_Witness ==
    /\ npc = "done"
    /\ ~load_outlier_detector
    /\ saved = "fitted"
    /\ fit_rows # {}
    /\ predict_rows # {}

\* rows i and j agree on the observed value and on both boundaries
SameObservationAndInterval(i, j) ==
    /\ forecast[i].y_isna = forecast[j].y_isna
    /\ forecast[i].y = forecast[j].y
    /\ forecast[i].yhat_lower = forecast[j].yhat_lower
    /\ forecast[i].yhat_upper = forecast[j].yhat_upper

C22_DegenerateInterval ==
    (Scored /\ yhat_lower = yhat_upper) =>
        /\ score = Num(Abs(y - yhat_lower))
        /\ score[1] >= 0
        /\ is_outlier = (y # yhat_lower)

\* a scored row whose interval is one value and whose observed value is off it
C22_Witness ==
    /\ Scored
    /\ yhat_lower = yhat_upper
    /\ y # yhat_lower
    /\ is_outlier

\* the test frame has been cut
TestFrameCut == npc \notin {"load", "n_prophet", "train", "flag", "detector", "fit", "save", "test"}

\* the threshold cell has run, to its end or to an exception
ThresholdCellRan == npc = "done" \/ failed = "threshold"

\* the loaded series has a row for every training and every test position
LongEnough == n_rows >= n_prophet + n_periods

OverlayPlotted ==
    /\ npc = "threshold" \/ ThresholdCellRan
    /\ ~load_outlier_detector
    /\ LongEnough

\* C24: the forecast plotted against the observed values covers the test
\* period: it has n_prophet history rows and the future rows after them, every
\* plotted row is a test-period row (index at least n_prophet), and every one
\* of the n_periods test rows is among the plotted rows.
C24_OverlayCoversTestPeriod ==
    OverlayPlotted =>
        /\ history = n_prophet
        /\ full_forecast = 0..(n_prophet + periods - 1)
        /\ \A i \in window : i >= n_prophet
        /\ \A j \in df_T_test : j \in window

====
